---- MODULE Spec2Model ----
(***************************************************************************)
(* Model of the three scripts of bot-loop:                                 *)
(*   getusers.py  - paged directory sync into the SQLite table "people"    *)
(*   message.py   - broadcast of one message to every stored user id       *)
(*   delete.py    - bulk deletion of the messages of a list of channels    *)
(* A run executes one script; prog names it.  The remote endpoints and the *)
(* local disk are the environment: every response and every storage fault  *)
(* is a nondeterministic input of the step that consumes it.               *)
(***************************************************************************)
EXTENDS Integers, Sequences, FiniteSets, TLC

\* ---- bounds of the model -------------------------------------------------
MaxRequests == 3
MaxRecipients == 3
MaxChannels == 2
MaxMessages == 2
MaxCookieLen == 5

\* ---- Python values -------------------------------------------------------
\* a key that is missing from a dict, and the JSON value null
Absent == "<absent>"
Null == "<null>"

\* Python truthiness of a string-or-None value
Truthy(v) == v \notin {Absent, Null, ""}

\* dict.get(key, default): the default only replaces a missing key
Get(v, default) == IF v = Absent THEN default ELSE v

\* dict.get(key) or "": missing, null and empty all become ""
GetOrEmpty(v) == IF Truthy(v) THEN v ELSE ""

\* ---- records of the listing endpoint ---------------------------------------
NoProfile ==
  [present |-> FALSE, real_name |-> Absent, display_name |-> Absent,
   email |-> Absent, team |-> Absent, image_192 |-> Absent,
   image_72 |-> Absent, image_512 |-> Absent]

ItemAlice ==
  [id |-> "U1", username |-> "alice",
   profile |-> [present |-> TRUE, real_name |-> "Alice", display_name |-> "al",
                email |-> "a@x", team |-> "T1", image_192 |-> "a192",
                image_72 |-> "a72", image_512 |-> "a512"]]

\* same identifier as ItemAlice, every secondary field empty, null or missing,
\* except image_72
ItemAliceBlank ==
  [id |-> "U1", username |-> "",
   profile |-> [present |-> TRUE, real_name |-> Null, display_name |-> "",
                email |-> Absent, team |-> "", image_192 |-> Absent,
                image_72 |-> "b72", image_512 |-> Null]]

ItemBob == [id |-> "U2", username |-> Null, profile |-> NoProfile]

ItemNoId ==
  [id |-> Absent, username |-> "ghost",
   profile |-> [present |-> TRUE, real_name |-> "Ghost", display_name |-> Absent,
                email |-> Absent, team |-> Absent, image_192 |-> Absent,
                image_72 |-> Absent, image_512 |-> Absent]]

ItemEmptyId == [id |-> "", username |-> "blank", profile |-> NoProfile]

\* the contents of "items" a listing response can carry
Pages ==
  { <<>>,
    <<ItemAlice>>,
    <<ItemAlice, ItemAliceBlank>>,
    <<ItemAliceBlank, ItemNoId, ItemAlice>>,
    <<ItemBob, ItemEmptyId>>,
    <<ItemNoId>> }

\* ---- persist_people_to_sqlite ----------------------------------------------
\* the tuple one item yields
RowOf(item) ==
  LET profile == IF item.profile.present THEN item.profile ELSE NoProfile IN
  [user_id |-> Get(item.id, ""),
   username |-> Get(item.username, ""),
   real_name |-> GetOrEmpty(profile.real_name),
   display_name |-> GetOrEmpty(profile.display_name),
   email |-> GetOrEmpty(profile.email),
   team_id |-> GetOrEmpty(profile.team),
   image_192 |-> IF Truthy(profile.image_192) THEN profile.image_192
                 ELSE GetOrEmpty(profile.image_72),
   image_512 |-> GetOrEmpty(profile.image_512)]

\* rows without the test of the id: every item yields a row
RowsOfAll(items) == [k \in 1..Len(items) |-> RowOf(items[k])]

\* rows = the tuples of the items that have a truthy id, in item order
RECURSIVE Rows(_)
Rows(items) ==
  IF items = <<>> THEN <<>>
  ELSE LET rest == Rows(Tail(items)) IN
       IF Truthy(RowOf(Head(items)).user_id)
       THEN <<RowOf(Head(items))>> \o rest
       ELSE rest

\* Upsert as a plain INSERT: a row is added whether or not the id is stored
UpsertInsertOnly(t, row) == Append(t, row)

\* Upsert as ON CONFLICT DO NOTHING: a stored id keeps its old columns
UpsertKeepsOld(t, row) ==
  IF \E k \in 1..Len(t) : t[k].user_id = row.user_id THEN t ELSE Append(t, row)

\* INSERT ... ON CONFLICT(user_id) DO UPDATE SET <every other column>
Upsert(t, row) ==
  IF \E i \in 1..Len(t) : t[i].user_id = row.user_id
  THEN [i \in 1..Len(t) |->
          IF t[i].user_id = row.user_id
          THEN [t[i] EXCEPT !.username = row.username,
                            !.real_name = row.real_name,
                            !.display_name = row.display_name,
                            !.email = row.email,
                            !.team_id = row.team_id,
                            !.image_192 = row.image_192,
                            !.image_512 = row.image_512]
          ELSE t[i]]
  ELSE Append(t, row)

\* cursor.executemany(upsert_sql, rows)
RECURSIVE ExecuteMany(_, _)
ExecuteMany(t, rows) ==
  IF rows = <<>> THEN t ELSE ExecuteMany(Upsert(t, Head(rows)), Tail(rows))

\* close() as a commit: what was written before the fault stays
CloseCommits(committed, pending) == pending

\* connection.close(): what was not committed is rolled back
Close(committed, pending) == committed

\* The faults of one call: none; the connection cannot be opened; executemany
\* raises after n rows were written; commit raises.
Faults ==
  {[kind |-> "none", n |-> 0], [kind |-> "connect", n |-> 0],
   [kind |-> "execute", n |-> 0], [kind |-> "execute", n |-> 1],
   [kind |-> "commit", n |-> 0]}

\* The call on a list of items: the table it leaves, whether the people table
\* exists afterwards, and whether it raised.
persist_people_to_sqlite(t, schema, items, fault) ==
  LET rows == Rows(items)
      n == IF fault.n < Len(rows) THEN fault.n ELSE Len(rows)
  IN  IF fault.kind = "connect"
      THEN [table |-> t, schema |-> schema, raised |-> TRUE]
      ELSE IF fault.kind = "execute"
      THEN [table |-> Close(t, ExecuteMany(t, SubSeq(rows, 1, n))),
            schema |-> "ready", raised |-> TRUE]
      ELSE IF fault.kind = "commit"
      THEN [table |-> Close(t, ExecuteMany(t, rows)),
            schema |-> "ready", raised |-> TRUE]
      ELSE [table |-> ExecuteMany(t, rows), schema |-> "ready", raised |-> FALSE]

\* ---- responses of the listing endpoint ---------------------------------------
\* body.kind: "text" (resp.json() raises ValueError), "json" (parses, but not to
\* a dict), "dict"; for a dict, items is "absent", "list" (the page in page) or
\* "other" (a truthy value that is not a list, of length 1).
Bodies ==
  {[kind |-> "text", items |-> "absent", page |-> <<>>],
   [kind |-> "json", items |-> "absent", page |-> <<>>],
   [kind |-> "dict", items |-> "absent", page |-> <<>>],
   [kind |-> "dict", items |-> "other", page |-> <<>>]}
  \cup {[kind |-> "dict", items |-> "list", page |-> p] : p \in Pages}

\* The responses of the endpoint: at most one of the three marks of a login
\* page, any body with status 200, and with status 500 a body that is not JSON
\* or one that carries a page.
Responses ==
  {r \in [raised : {FALSE}, status : {200, 500}, ct_html : BOOLEAN,
          doctype : BOOLEAN, url_login : BOOLEAN, body : Bodies] :
     /\ Cardinality({m \in {"ct", "doctype", "url"} :
                       \/ m = "ct" /\ r.ct_html
                       \/ m = "doctype" /\ r.doctype
                       \/ m = "url" /\ r.url_login}) <= 1
     /\ r.status = 500 =>
          \/ r.body.kind = "text"
          \/ r.body.items = "list" /\ r.body.page = <<ItemAlice>>}

\* s.post raised (timeout, connection error)
TransportFailure ==
  [raised |-> TRUE, status |-> 0, ct_html |-> FALSE, doctype |-> FALSE,
   url_login |-> FALSE, body |-> [kind |-> "text", items |-> "absent", page |-> <<>>]]

\* the login test on the Content-Type alone
IsHtmlByContentType(resp) == resp.ct_html

\* "text/html" in ct or "<!doctype html" in text.lower() or "login" in resp.url.lower()
IsHtml(resp) == resp.ct_html \/ resp.doctype \/ resp.url_login

\* items = j.get("items", []) if isinstance(j, dict) else []
ItemsKind(resp) == IF resp.body.kind = "dict" THEN resp.body.items ELSE "absent"

ItemsOf(resp) ==
  IF ItemsKind(resp) = "list" THEN resp.body.page ELSE <<>>

\* len(items)
ItemsLen(resp) ==
  IF ItemsKind(resp) = "other" THEN 1 ELSE Len(ItemsOf(resp))

\* ---- build_session_from_cookie ------------------------------------------------
\* A string is the sequence of its characters.
Alphabet == {"a", "b", "=", ";", " "}

CookieHeaders == UNION {[1..n -> Alphabet] : n \in 0..MaxCookieLen}

\* str.strip()
RECURSIVE LStrip(_)
LStrip(str) ==
  IF str # <<>> /\ Head(str) = " " THEN LStrip(Tail(str)) ELSE str

RECURSIVE RStrip(_)
RStrip(str) ==
  IF str # <<>> /\ str[Len(str)] = " "
  THEN RStrip(SubSeq(str, 1, Len(str) - 1))
  ELSE str

Strip(str) == RStrip(LStrip(str))

Contains(str, sep) == \E k \in 1..Len(str) : str[k] = sep

First(str, sep) ==
  CHOOSE k \in 1..Len(str) : str[k] = sep /\ \A j \in 1..(k - 1) : str[j] # sep

\* str.split(sep)
RECURSIVE Split(_, _)
Split(str, sep) ==
  IF ~Contains(str, sep) THEN <<str>>
  ELSE <<SubSeq(str, 1, First(str, sep) - 1)>>
         \o Split(SubSeq(str, First(str, sep) + 1, Len(str)), sep)

\* the split made at the last separator
SplitAtLast(str, sep) ==
  LET k == CHOOSE k \in 1..Len(str) :
             str[k] = sep /\ \A j \in (k + 1)..Len(str) : str[j] # sep
  IN <<SubSeq(str, 1, k - 1), SubSeq(str, k + 1, Len(str))>>

\* str.split(sep, 1) of a string that contains sep
SplitOnce(str, sep) ==
  <<SubSeq(str, 1, First(str, sep) - 1), SubSeq(str, First(str, sep) + 1, Len(str))>>

\* s.cookies.set(name, value, domain=...): the jar holds one cookie per name of
\* the domain
CookieSet(jar, name, value) == {c \in jar : c[1] # name} \cup {<<name, value>>}

RECURSIVE SetPairs(_, _)
SetPairs(jar, pairs) ==
  IF pairs = <<>> THEN jar
  ELSE LET p == Head(pairs) IN
       IF Contains(p, "=")
       THEN SetPairs(CookieSet(jar, Strip(SplitOnce(p, "=")[1]),
                               Strip(SplitOnce(p, "=")[2])),
                     Tail(pairs))
       ELSE SetPairs(jar, Tail(pairs))

build_session_from_cookie(cookie_header) ==
  LET parts == Split(cookie_header, ";")
      stripped == [k \in 1..Len(parts) |-> Strip(parts[k])]
      pairs == SelectSeq(stripped, LAMBDA p : p # <<>>)
  IN SetPairs({}, pairs)

\* what SLACK_COOKIE and SLACK_XOXC can hold in .env
EnvCookies == {<<>>, <<" ">>, <<"a", "=", "b">>}
EnvTokens == {<<>>, <<" ">>, <<"a">>}

\* the token test alone
MissingCookie(cookie, token) == cookie = <<>>

\* not COOKIE or not XOXC_TOKEN
MissingCredential(cookie, token) == cookie = <<>> \/ token = <<>>

VARIABLES
  COOKIE,        \* SLACK_COOKIE and SLACK_XOXC of the environment, stripped
  XOXC_TOKEN,
  TO_USER_ENV,   \* TO_USER of the environment, "" when not set
  session,       \* the cookie jar of the session: (name, value) pairs
  prog,          \* the script this run executes
  pc,            \* where the script is; "done" and "crashed" are final
  exit_code,     \* the exit status of the process, -1 while it runs
  schema,        \* people.db: "missing", or "ready" (the people table exists)
  table,         \* the rows of people, in insertion order
  \* getusers.py
  stop,          \* why the sync loop ended
  PAGE_START,    \* pagination controls of the environment
  MAX_PAGES,
  current_page,
  total_items,
  pages_ok,
  log,           \* the listing requests issued: page asked, response, storage fault
  applied,       \* the item lists whose rows were committed, in order
  \* message.py and delete.py
  args_channel,  \* --channel, "" when not given
  trace,         \* the operations invoked and the sleeps taken, in order
  reply,         \* the response the last operation received
  \* message.py
  TO_USERS,
  idx,           \* iterations of the broadcast loop completed
  success,
  failure,
  \* delete.py
  channel_file,  \* the channel ids read_channels_from_file returns
  dry_run,
  delay,
  channels,
  channel_idx,   \* the index of the channel in work, 0 before the loop
  fetched,       \* what get_channel_messages returned, per channel visited
  deletable_messages,
  i,             \* iterations of the delete loop of this channel completed
  success_count,
  total_deleted,
  total_channels_processed

envVars == <<COOKIE, XOXC_TOKEN, TO_USER_ENV, session>>
storeVars == <<schema, table>>
syncVars ==
  <<stop, PAGE_START, MAX_PAGES, current_page, total_items, pages_ok, log, applied>>
dispatchVars == <<args_channel, trace, reply>>
sendVars == <<TO_USERS, idx, success, failure>>
deleteVars ==
  <<channel_file, dry_run, delay, channels, channel_idx, fetched,
    deletable_messages, i, success_count, total_deleted, total_channels_processed>>
vars ==
  <<envVars, prog, pc, exit_code, storeVars, syncVars, dispatchVars, sendVars, deleteVars>>

NoReply == [raised |-> FALSE, status |-> 0]

\* the values of the variables a script does not use
SyncIdle ==
  /\ stop = "none"
  /\ PAGE_START = 1
  /\ MAX_PAGES = 0
  /\ current_page = 1
  /\ total_items = 0
  /\ pages_ok = 0
  /\ log = <<>>
  /\ applied = <<>>

DispatchIdle ==
  /\ args_channel = ""
  /\ trace = <<>>
  /\ reply = NoReply

SendIdle ==
  /\ TO_USERS = <<>>
  /\ idx = 0
  /\ success = 0
  /\ failure = 0

DeleteIdle ==
  /\ channel_file = <<>>
  /\ dry_run = FALSE
  /\ delay = 0
  /\ channels = <<>>
  /\ channel_idx = 0
  /\ fetched = <<>>
  /\ deletable_messages = <<>>
  /\ i = 0
  /\ success_count = 0
  /\ total_deleted = 0
  /\ total_channels_processed = 0

\* ---- getusers.py main --------------------------------------------------------
\* The test of the credentials every script starts with, and the session main
\* builds when it passes:
\* if not COOKIE or not XOXC_TOKEN: sys.exit(1)
Credentials(entry) ==
  /\ pc = "check"
  /\ IF MissingCredential(COOKIE, XOXC_TOKEN)
     THEN pc' = "done" /\ exit_code' = 1 /\ UNCHANGED session
     ELSE /\ pc' = entry
          /\ session' = build_session_from_cookie(COOKIE)
          /\ UNCHANGED exit_code
  /\ UNCHANGED <<prog, COOKIE, XOXC_TOKEN, TO_USER_ENV, storeVars, syncVars,
                 dispatchVars, sendVars, deleteVars>>

InitSync ==
  /\ prog = "getusers"
  /\ pc = "check"
  /\ COOKIE \in {Strip(e) : e \in EnvCookies}
  /\ XOXC_TOKEN \in {Strip(e) : e \in EnvTokens}
  /\ TO_USER_ENV = ""
  /\ session = {}
  /\ exit_code = -1
  /\ schema = "missing"
  /\ table = <<>>
  /\ stop = "none"
  /\ PAGE_START \in {1, 5}
  /\ MAX_PAGES \in {0, 2}
  /\ current_page = PAGE_START
  /\ total_items = 0
  /\ pages_ok = 0
  /\ log = <<>>
  /\ applied = <<>>
  /\ DispatchIdle
  /\ SendIdle
  /\ DeleteIdle

Entry(resp, fault) == [page |-> current_page, resp |-> resp, fault |-> fault]

NoFault == [kind |-> "none", n |-> 0]

SyncCredentials == prog = "getusers" /\ Credentials("loop")

SyncGuard == prog = "getusers" /\ pc = "loop" /\ Len(log) < MaxRequests

\* the loop was left by break: the summary is printed and main returns
SyncBreak(reason) ==
  /\ pc' = "done"
  /\ exit_code' = 0
  /\ stop' = reason

\* s.post raises: nothing in main catches it
SyncTransportFailure ==
  /\ SyncGuard
  /\ log' = Append(log, Entry(TransportFailure, NoFault))
  /\ pc' = "crashed"
  /\ exit_code' = 1
  /\ stop' = "exception"
  /\ UNCHANGED <<prog, envVars, storeVars, PAGE_START, MAX_PAGES, current_page,
                 total_items, pages_ok, applied,
                 dispatchVars, sendVars, deleteVars>>

\* the response is HTML or a login redirect
SyncHtml ==
  /\ SyncGuard
  /\ \E resp \in Responses :
       /\ IsHtml(resp)
       /\ log' = Append(log, Entry(resp, NoFault))
  /\ SyncBreak("html")
  /\ UNCHANGED <<prog, envVars, storeVars, PAGE_START, MAX_PAGES, current_page,
                 total_items, pages_ok, applied,
                 dispatchVars, sendVars, deleteVars>>

\* resp.json() raises ValueError
SyncNotJson ==
  /\ SyncGuard
  /\ \E resp \in Responses :
       /\ ~IsHtml(resp)
       /\ resp.body.kind = "text"
       /\ log' = Append(log, Entry(resp, NoFault))
  /\ SyncBreak("not_json")
  /\ UNCHANGED <<prog, envVars, storeVars, PAGE_START, MAX_PAGES, current_page,
                 total_items, pages_ok, applied,
                 dispatchVars, sendVars, deleteVars>>

\* SyncNoItems without the break: the empty page is skipped
SyncNoItemsSkips ==
  /\ SyncGuard
  /\ \E resp \in Responses :
       /\ ~IsHtml(resp)
       /\ resp.body.kind # "text"
       /\ ItemsLen(resp) = 0
       /\ log' = Append(log, Entry(resp, NoFault))
  /\ current_page' = current_page + 1
  /\ UNCHANGED <<prog, envVars, pc, exit_code, stop, storeVars, PAGE_START, MAX_PAGES,
                 total_items, pages_ok, applied, dispatchVars, sendVars, deleteVars>>

\* if not items
SyncNoItems ==
  /\ SyncGuard
  /\ \E resp \in Responses :
       /\ ~IsHtml(resp)
       /\ resp.body.kind # "text"
       /\ ItemsLen(resp) = 0
       /\ log' = Append(log, Entry(resp, NoFault))
  /\ SyncBreak("no_items")
  /\ UNCHANGED <<prog, envVars, storeVars, PAGE_START, MAX_PAGES, current_page,
                 total_items, pages_ok, applied,
                 dispatchVars, sendVars, deleteVars>>

\* the page asked after a saved one, with a step of two
NextPageSkips(page) == page + 2

\* current_page += 1
NextPage(page) == page + 1

\* the ceiling test with > for >=
CeilingReachedLate(saved) == MAX_PAGES > 0 /\ saved > MAX_PAGES

\* the ceiling test left out
CeilingNever(saved) == FALSE

\* if MAX_PAGES > 0 and pages_ok >= MAX_PAGES
CeilingReached(saved) == MAX_PAGES > 0 /\ saved >= MAX_PAGES

\* a response with items: persist, count, advance, check the ceiling
SyncPage ==
  /\ SyncGuard
  /\ \E resp \in Responses, fault \in Faults :
       /\ ~IsHtml(resp)
       /\ resp.body.kind # "text"
       /\ ItemsLen(resp) > 0
       /\ log' = Append(log, Entry(resp, fault))
       /\ IF ItemsKind(resp) # "list"
          THEN \* persist_people_to_sqlite returns at once
               /\ fault = NoFault
               /\ UNCHANGED <<schema, table, applied>>
               /\ pages_ok' = pages_ok + 1
               /\ total_items' = total_items + ItemsLen(resp)
          ELSE LET r == persist_people_to_sqlite(table, schema, ItemsOf(resp), fault) IN
               /\ table' = r.table
               /\ schema' = r.schema
               /\ IF r.raised
                  THEN UNCHANGED <<pages_ok, total_items, applied>>
                  ELSE /\ pages_ok' = pages_ok + 1
                       /\ total_items' = total_items + ItemsLen(resp)
                       /\ applied' = Append(applied, ItemsOf(resp))
       /\ IF ItemsKind(resp) = "list" /\ fault.kind # "none"
          THEN /\ SyncBreak("persist_failed")
               /\ UNCHANGED current_page
          ELSE /\ current_page' = NextPage(current_page)
               /\ IF CeilingReached(pages_ok')
                  THEN SyncBreak("max_pages")
                  ELSE UNCHANGED <<pc, exit_code, stop>>
  /\ UNCHANGED <<prog, envVars, PAGE_START, MAX_PAGES, dispatchVars, sendVars, deleteVars>>

NextSync ==
  \/ SyncCredentials
  \/ SyncTransportFailure
  \/ SyncHtml
  \/ SyncNotJson
  \/ SyncNoItems
  \/ SyncPage

SpecSync == InitSync /\ [][NextSync]_vars

\* The iterations past the first MaxRequests requests.  The loop body is the
\* same; the records of the run (log, applied) and its counters are no longer
\* extended, so that a run that goes on for ever is a cycle of the model.
SyncBeyond ==
  /\ prog = "getusers" /\ pc = "loop" /\ Len(log) = MaxRequests
  /\ \E resp \in Responses \cup {TransportFailure}, fault \in Faults :
       LET saves == /\ ~resp.raised /\ ~IsHtml(resp)
                    /\ resp.body.kind # "text" /\ ItemsLen(resp) > 0
           lists == saves /\ ItemsKind(resp) = "list"
           r == persist_people_to_sqlite(table, schema, ItemsOf(resp), fault)
       IN
       /\ ~lists => fault = NoFault
       /\ IF lists
          THEN table' = r.table /\ schema' = r.schema
          ELSE UNCHANGED storeVars
       /\ IF resp.raised
          THEN pc' = "crashed" /\ exit_code' = 1 /\ stop' = "exception"
          ELSE IF IsHtml(resp) THEN SyncBreak("html")
          ELSE IF resp.body.kind = "text" THEN SyncBreak("not_json")
          ELSE IF ItemsLen(resp) = 0 THEN SyncBreak("no_items")
          ELSE IF lists /\ fault.kind # "none" THEN SyncBreak("persist_failed")
          ELSE IF CeilingReached(pages_ok + 1) THEN SyncBreak("max_pages")
          ELSE UNCHANGED <<pc, exit_code, stop>>
  /\ UNCHANGED <<prog, envVars, PAGE_START, MAX_PAGES, current_page, total_items,
                 pages_ok, log, applied, dispatchVars, sendVars, deleteVars>>

NextSyncLive == NextSync \/ SyncBeyond

\* the script runs on: a request returns or raises within its timeout of 30 s
SpecSyncLive == InitSync /\ [][NextSyncLive]_vars /\ WF_vars(NextSyncLive)

\* ---- message.py --------------------------------------------------------------
\* The responses of chat.postMessage.  body is "text" (response.json() raises
\* ValueError) or "dict"; ok and error describe a dict body: the value of its
\* "ok" field and whether it has an "error" key.
SendResponses ==
  {r \in [raised : {FALSE}, status : {200, 500}, ct_html : BOOLEAN,
          body : {"text", "dict"}, ok : BOOLEAN, error : BOOLEAN] :
     /\ r.body = "text" => ~r.ok /\ ~r.error
     /\ r.ok => ~r.error}
  \cup {[raised |-> TRUE, status |-> 0, ct_html |-> FALSE, body |-> "text",
         ok |-> FALSE, error |-> FALSE]}

\* send_message: the dict it returns, as whether it has an "error" key and the
\* return statement that built it
send_message(resp) ==
  IF resp.raised THEN [error |-> TRUE, from |-> "request"]
  ELSE IF resp.ct_html THEN [error |-> TRUE, from |-> "html"]
  ELSE IF resp.body = "dict" THEN [error |-> resp.error, from |-> "json"]
  ELSE IF resp.status = 200 THEN [error |-> FALSE, from |-> "assumed"]
  ELSE [error |-> TRUE, from |-> "format"]

\* get_all_user_ids: the non-empty user_id values, in row order
RECURSIVE StoredIds(_)
StoredIds(t) ==
  IF t = <<>> THEN <<>>
  ELSE IF Head(t).user_id \notin {Null, ""}
       THEN <<Head(t).user_id>> \o StoredIds(Tail(t))
       ELSE StoredIds(Tail(t))

get_all_user_ids(db, t) == IF db = "missing" THEN <<>> ELSE StoredIds(t)

\* a people table as getusers.py leaves it, with n users
PeopleRow(k) ==
  [user_id |-> "U" \o ToString(k), username |-> "", real_name |-> "",
   display_name |-> "", email |-> "", team_id |-> "", image_192 |-> "",
   image_512 |-> ""]

People(n) == [k \in 1..n |-> PeopleRow(k)]

Call(op, channel, ts, ok) == [op |-> op, channel |-> channel, ts |-> ts, ok |-> ok]

Sleep == Call("sleep", "", "", TRUE)

InitMessage ==
  /\ prog = "message"
  /\ pc = "check"
  /\ COOKIE \in {Strip(e) : e \in EnvCookies}
  /\ XOXC_TOKEN \in {Strip(e) : e \in EnvTokens}
  /\ TO_USER_ENV \in {"", "D9"}
  /\ session = {}
  /\ exit_code = -1
  /\ schema \in {"missing", "ready"}
  /\ table \in {People(n) : n \in 0..MaxRecipients}
  /\ schema = "missing" => table = <<>>
  /\ SyncIdle
  /\ args_channel \in {"", "D1"}
  /\ trace = <<>>
  /\ reply = NoReply
  /\ SendIdle
  /\ DeleteIdle

MsgCredentials == prog = "message" /\ Credentials("start")

\* if args.channel: one send, exit status 1 when the result has "error"
MsgSingle ==
  /\ prog = "message" /\ pc = "start"
  /\ args_channel # ""
  /\ \E resp \in SendResponses :
       LET result == send_message(resp) IN
       /\ reply' = resp
       /\ trace' = Append(trace, Call("send", args_channel, "", ~result.error))
       /\ pc' = "done"
       /\ exit_code' = IF result.error THEN 1 ELSE 0
  /\ UNCHANGED <<prog, envVars, storeVars, syncVars, args_channel, sendVars, deleteVars>>

\* TO_USERS = get_all_user_ids(SQLITE_PATH).  With no id in the store the test
\* "not TO_USERS and TO_USER" reads TO_USER, a name message.py never binds:
\* NameError, which nothing catches.
MsgLoad ==
  /\ prog = "message" /\ pc = "start"
  /\ args_channel = ""
  /\ TO_USERS' = get_all_user_ids(schema, table)
  /\ IF TO_USERS' = <<>>
     THEN pc' = "crashed" /\ exit_code' = 1
     ELSE pc' = "broadcast" /\ UNCHANGED exit_code
  /\ UNCHANGED <<prog, envVars, storeVars, syncVars, dispatchVars, idx, success, failure,
                 deleteVars>>

\* MsgSend with a break on the first failed send
MsgSendBreaks ==
  /\ prog = "message" /\ pc = "broadcast"
  /\ idx < Len(TO_USERS)
  /\ \E resp \in SendResponses :
       LET result == send_message(resp)
           uid == TO_USERS[idx + 1]
           sent == Append(trace, Call("send", uid, "", ~result.error))
       IN
       /\ reply' = resp
       /\ idx' = idx + 1
       /\ IF result.error
          THEN failure' = failure + 1 /\ UNCHANGED success
          ELSE success' = success + 1 /\ UNCHANGED failure
       /\ IF idx' < Len(TO_USERS) /\ ~result.error
          THEN /\ trace' = Append(sent, Sleep)
               /\ UNCHANGED <<pc, exit_code>>
          ELSE /\ trace' = sent
               /\ pc' = "done"
               /\ exit_code' = IF failure' # 0 THEN 1 ELSE 0
  /\ UNCHANGED <<prog, envVars, storeVars, syncVars, args_channel, TO_USERS, deleteVars>>

\* one iteration of the broadcast loop; after the last one the summary is
\* printed and the status is 1 when failure is not 0
MsgSend ==
  /\ prog = "message" /\ pc = "broadcast"
  /\ idx < Len(TO_USERS)
  /\ \E resp \in SendResponses :
       LET result == send_message(resp)
           uid == TO_USERS[idx + 1]
           sent == Append(trace, Call("send", uid, "", ~result.error))
       IN
       /\ reply' = resp
       /\ idx' = idx + 1
       /\ IF result.error
          THEN failure' = failure + 1 /\ UNCHANGED success
          ELSE success' = success + 1 /\ UNCHANGED failure
       /\ IF idx' < Len(TO_USERS)
          THEN /\ trace' = Append(sent, Sleep)
               /\ UNCHANGED <<pc, exit_code>>
          ELSE /\ trace' = sent
               /\ pc' = "done"
               /\ exit_code' = IF failure' # 0 THEN 1 ELSE 0
  /\ UNCHANGED <<prog, envVars, storeVars, syncVars, args_channel, TO_USERS, deleteVars>>

NextMessage ==
  \/ MsgCredentials
  \/ MsgSingle
  \/ MsgLoad
  \/ MsgSend

SpecMessage == InitMessage /\ [][NextMessage]_vars

\* ---- delete.py ---------------------------------------------------------------
\* The messages of a channel, newest first.  Three of them fail one test of the
\* filter each: the type, the ts key, the user or bot_id key.
Joined == [type |-> "channel_join", ts |-> "105.0", user |-> "U1", bot_id |-> Absent]
ByUser == [type |-> "message", ts |-> "104.0", user |-> "U1", bot_id |-> Absent]
ByBot == [type |-> "message", ts |-> "103.0", user |-> Absent, bot_id |-> "B1"]
NoTs == [type |-> "message", ts |-> Absent, user |-> "U2", bot_id |-> Absent]
NoAuthor == [type |-> "message", ts |-> "101.0", user |-> Absent, bot_id |-> Absent]

Timeline == <<Joined, ByUser, ByBot, NoTs, NoAuthor>>

\* what conversations.history can list: a window of the timeline of at most
\* MaxMessages messages
Histories ==
  {SubSeq(Timeline, w[1], w[2]) :
     w \in {v \in (1..Len(Timeline)) \X (0..Len(Timeline)) :
              v[2] >= v[1] - 1 /\ v[2] - v[1] < MaxMessages}}

\* The responses of conversations.history.  body is "text" (response.json()
\* raises ValueError) or "dict"; ok, has_messages and messages describe a dict.
FetchResponses ==
  {r \in [raised : {FALSE}, status : {200, 500}, body : {"text", "dict"},
          ok : BOOLEAN, has_messages : BOOLEAN, messages : Histories] :
     /\ r.body = "text" => ~r.ok /\ ~r.has_messages
     /\ ~r.has_messages => r.messages = <<>>}
  \cup {[raised |-> TRUE, status |-> 0, body |-> "text", ok |-> FALSE,
         has_messages |-> FALSE, messages |-> <<>>]}

get_channel_messages(resp) ==
  IF resp.raised THEN <<>>
  ELSE IF resp.status = 200
       THEN IF resp.body = "dict" /\ resp.ok /\ resp.has_messages
            THEN resp.messages
            ELSE <<>>
       ELSE <<>>

\* The responses of chat.delete.  ct_html marks a login page; delete_message
\* does not look at it.
DeleteResponses ==
  {r \in [raised : {FALSE}, status : {200, 204, 500}, ct_html : BOOLEAN,
          body : {"text", "dict"}, ok : BOOLEAN] :
     /\ r.body = "text" => ~r.ok
     /\ r.ct_html => r.body = "text"
     /\ r.status = 204 => r.body = "text" /\ ~r.ct_html}
  \cup {[raised |-> TRUE, status |-> 0, ct_html |-> FALSE, body |-> "text",
         ok |-> FALSE]}

\* delete_message without the fallback: a body that does not parse is a failure
delete_message_parsed_only(resp) ==
  IF resp.raised THEN FALSE
  ELSE IF resp.status = 200
       THEN IF resp.body = "dict" THEN resp.ok ELSE FALSE
       ELSE FALSE

delete_message(resp) ==
  IF resp.raised THEN FALSE
  ELSE IF resp.status = 200
       THEN IF resp.body = "dict" THEN resp.ok ELSE TRUE
       ELSE FALSE

\* the filter without its test of the type
IsDeletableAnyType(msg) ==
  /\ msg.ts # Absent
  /\ msg.user # Absent \/ msg.bot_id # Absent

\* msg.get("type") == "message" and "ts" in msg, and "user" in msg or "bot_id" in msg
IsDeletable(msg) ==
  /\ msg.type = "message" /\ msg.ts # Absent
  /\ msg.user # Absent \/ msg.bot_id # Absent

RECURSIVE Deletable(_)
Deletable(messages) ==
  IF messages = <<>> THEN <<>>
  ELSE IF IsDeletable(Head(messages))
       THEN <<Head(messages)>> \o Deletable(Tail(messages))
       ELSE Deletable(Tail(messages))

\* the dry-run listing cut to its first line
PreviewsFirstOnly(channel, messages) ==
  <<Call("preview", channel, messages[1].ts, TRUE)>>

\* the lines of the dry-run listing of one channel
Previews(channel, messages) ==
  [k \in 1..Len(messages) |-> Call("preview", channel, messages[k].ts, TRUE)]

ChannelList(n) == [k \in 1..n |-> "C" \o ToString(k)]

InitDelete ==
  /\ prog = "delete"
  /\ pc = "check"
  /\ COOKIE \in {Strip(e) : e \in EnvCookies}
  /\ XOXC_TOKEN \in {Strip(e) : e \in EnvTokens}
  /\ TO_USER_ENV = ""
  /\ session = {}
  /\ exit_code = -1
  /\ schema = "missing"
  /\ table = <<>>
  /\ SyncIdle
  /\ args_channel \in {"", "D1"}
  /\ trace = <<>>
  /\ reply = NoReply
  /\ SendIdle
  /\ channel_file \in {ChannelList(n) : n \in 0..MaxChannels}
  /\ args_channel # "" => channel_file = <<>>
  /\ dry_run \in BOOLEAN
  /\ delay \in {0, 1}
  /\ channels = <<>>
  /\ channel_idx = 0
  /\ fetched = <<>>
  /\ deletable_messages = <<>>
  /\ i = 0
  /\ success_count = 0
  /\ total_deleted = 0
  /\ total_channels_processed = 0

DelCredentials == prog = "delete" /\ Credentials("start")

\* the channels to process: --channel, or the file; no channel is status 1
DelStart ==
  /\ prog = "delete" /\ pc = "start"
  /\ channels' = IF args_channel # "" THEN <<args_channel>> ELSE channel_file
  /\ IF channels' = <<>>
     THEN pc' = "done" /\ exit_code' = 1
     ELSE pc' = "channels" /\ UNCHANGED exit_code
  /\ UNCHANGED <<prog, envVars, storeVars, syncVars, dispatchVars, sendVars, channel_file,
                 dry_run, delay, channel_idx, fetched, deletable_messages, i,
                 success_count, total_deleted, total_channels_processed>>

\* the channel loop is over when the iteration of the last channel ends
DelNextChannel(idx_now) ==
  IF idx_now < Len(channels)
  THEN pc' = "channels" /\ UNCHANGED exit_code
  ELSE pc' = "done" /\ exit_code' = 0

\* One iteration of the channel loop up to its delete loop: fetch, filter, and
\* either continue (nothing to delete, or the dry-run listing) or enter the
\* delete loop.
DelChannel ==
  /\ prog = "delete" /\ pc = "channels"
  /\ channel_idx < Len(channels)
  /\ \E resp \in FetchResponses :
       LET channel_id == channels[channel_idx + 1]
           messages == get_channel_messages(resp)
           found == Deletable(messages)
       IN
       /\ channel_idx' = channel_idx + 1
       /\ fetched' = Append(fetched, [channel |-> channel_id, messages |-> messages])
       /\ IF found = <<>>
          THEN /\ DelNextChannel(channel_idx')
               /\ UNCHANGED <<trace, deletable_messages, i, success_count>>
          ELSE IF dry_run
          THEN /\ trace' = trace \o Previews(channel_id, found)
               /\ DelNextChannel(channel_idx')
               /\ UNCHANGED <<deletable_messages, i, success_count>>
          ELSE /\ deletable_messages' = found
               /\ i' = 0
               /\ success_count' = 0
               /\ pc' = "deleting"
               /\ UNCHANGED <<trace, exit_code>>
  /\ UNCHANGED <<prog, envVars, storeVars, syncVars, args_channel, reply, sendVars,
                 channel_file, dry_run, delay, channels, total_deleted,
                 total_channels_processed>>

\* the pause left out
PauseNever(calls, more) == calls

\* if <more to come> and args.delay > 0: time.sleep(args.delay)
PauseAfter(calls, more) == IF more /\ delay > 0 THEN Append(calls, Sleep) ELSE calls

\* DelDelete with a break on a failed delete: the rest of the channel is left
DelDeleteBreaks ==
  /\ prog = "delete" /\ pc = "deleting"
  /\ i < Len(deletable_messages)
  /\ \E resp \in DeleteResponses :
       LET channel_id == channels[channel_idx]
           msg == deletable_messages[i + 1]
           deleted == delete_message(resp)
           called == Append(trace, Call("delete", channel_id, msg.ts, deleted))
           slept == PauseAfter(called, i' < Len(deletable_messages))
       IN
       /\ reply' = resp
       /\ i' = i + 1
       /\ success_count' = IF deleted THEN success_count + 1 ELSE success_count
       /\ IF i' < Len(deletable_messages) /\ deleted
          THEN /\ trace' = slept
               /\ UNCHANGED <<pc, exit_code, total_deleted, total_channels_processed>>
          ELSE /\ total_deleted' = total_deleted + success_count'
               /\ total_channels_processed' = total_channels_processed + 1
               /\ trace' = PauseAfter(slept, channel_idx < Len(channels))
               /\ DelNextChannel(channel_idx)
  /\ UNCHANGED <<prog, envVars, storeVars, syncVars, args_channel, sendVars, channel_file,
                 dry_run, delay, channels, channel_idx, fetched, deletable_messages>>

\* One iteration of the delete loop; the last one also ends the iteration of
\* the channel loop: totals, and the delay between channels.
DelDelete ==
  /\ prog = "delete" /\ pc = "deleting"
  /\ i < Len(deletable_messages)
  /\ \E resp \in DeleteResponses :
       LET channel_id == channels[channel_idx]
           msg == deletable_messages[i + 1]
           deleted == delete_message(resp)
           called == Append(trace, Call("delete", channel_id, msg.ts, deleted))
           slept == PauseAfter(called, i' < Len(deletable_messages))
       IN
       /\ reply' = resp
       /\ i' = i + 1
       /\ success_count' = IF deleted THEN success_count + 1 ELSE success_count
       /\ IF i' < Len(deletable_messages)
          THEN /\ trace' = slept
               /\ UNCHANGED <<pc, exit_code, total_deleted, total_channels_processed>>
          ELSE /\ total_deleted' = total_deleted + success_count'
               /\ total_channels_processed' = total_channels_processed + 1
               /\ trace' = PauseAfter(slept, channel_idx < Len(channels))
               /\ DelNextChannel(channel_idx)
  /\ UNCHANGED <<prog, envVars, storeVars, syncVars, args_channel, sendVars, channel_file,
                 dry_run, delay, channels, channel_idx, fetched, deletable_messages>>

NextDelete ==
  \/ DelCredentials
  \/ DelStart
  \/ DelChannel
  \/ DelDelete

SpecDelete == InitDelete /\ [][NextDelete]_vars

\* ---- the two scripts that dispatch operations ---------------------------------
InitDispatch == InitMessage \/ InitDelete

NextDispatch ==
  \/ MsgCredentials
  \/ DelCredentials
  \/ MsgSingle
  \/ MsgLoad
  \/ MsgSend
  \/ DelStart
  \/ DelChannel
  \/ DelDelete

SpecDispatch == InitDispatch /\ [][NextDispatch]_vars

\* ---- the three scripts --------------------------------------------------------
InitScripts == InitSync \/ InitMessage \/ InitDelete

NextScripts == NextSync \/ NextMessage \/ NextDelete

SpecScripts == InitScripts /\ [][NextScripts]_vars

\* ---- build_session_from_cookie on every cookie header --------------------------
InitSession ==
  /\ prog = "session"
  /\ pc = "start"
  /\ exit_code = -1
  /\ COOKIE \in CookieHeaders
  /\ XOXC_TOKEN = <<>>
  /\ TO_USER_ENV = ""
  /\ session = {}
  /\ schema = "missing"
  /\ table = <<>>
  /\ SyncIdle
  /\ DispatchIdle
  /\ SendIdle
  /\ DeleteIdle

BuildSession ==
  /\ prog = "session" /\ pc = "start"
  /\ session' = build_session_from_cookie(COOKIE)
  /\ pc' = "done"
  /\ UNCHANGED <<prog, COOKIE, XOXC_TOKEN, TO_USER_ENV, exit_code, storeVars,
                 syncVars, dispatchVars, sendVars, deleteVars>>

NextSession == BuildSession

SpecSession == InitSession /\ [][NextSession]_vars

\* ==== properties ================================================================
\* the send_message and delete_message calls and the preview lines, in order
RECURSIVE Only(_, _)
Only(calls, op) ==
  IF calls = <<>> THEN <<>>
  ELSE IF Head(calls).op = op
       THEN <<Head(calls)>> \o Only(Tail(calls), op)
       ELSE Only(Tail(calls), op)

Sends == Only(trace, "send")
Deletes == Only(trace, "delete")
Previewed == Only(trace, "preview")

Target(call) == <<call.channel, call.ts>>
Targets(calls) == [k \in 1..Len(calls) |-> Target(calls[k])]

\* the (channel, ts) pairs of the deletable messages of the histories fetched so
\* far, channel by channel, each in message order
RECURSIVE Expected(_)
Expected(visits) ==
  IF visits = <<>> THEN <<>>
  ELSE LET found == Deletable(Head(visits).messages) IN
       [k \in 1..Len(found) |-> <<Head(visits).channel, found[k].ts>>]
         \o Expected(Tail(visits))

IsPrefix(a, b) == Len(a) <= Len(b) /\ a = SubSeq(b, 1, Len(a))

BulkDeleteComplete ==
  (prog = "delete" /\ ~dry_run) =>
    /\ IsPrefix(Targets(Deletes), Expected(fetched))
    /\ \A k \in 1..Len(fetched) : fetched[k].channel = channels[k]
    /\ (pc = "done" /\ channels # <<>>) =>
         /\ Len(fetched) = Len(channels)
         /\ Targets(Deletes) = Expected(fetched)
         /\ total_deleted = Cardinality({k \in 1..Len(Deletes) : Deletes[k].ok})

\* the first channel yields nothing, the first delete of the second fails, the
\* next one is still made
BulkDeleteWitness ==
  /\ prog = "delete" /\ ~dry_run /\ pc = "done"
  /\ Len(fetched) = 2
  /\ fetched[1].messages = <<>>
  /\ Len(Deletes) = 2
  /\ ~Deletes[1].ok /\ Deletes[2].ok
  /\ total_deleted = 1

\* C3: with --dry-run no delete_message call is made and the preview lines are
\* exactly the deletable messages of the histories fetched, in the order a run
\* without --dry-run deletes them.
DryRunPurity ==
  (prog = "delete" /\ dry_run) =>
    /\ Deletes = <<>>
    /\ reply = NoReply
    /\ Targets(Previewed) = Expected(fetched)

DryRunWitness ==
  /\ prog = "delete" /\ dry_run /\ pc = "done"
  /\ Len(fetched) = 2
  /\ Len(Previewed) = 3

\* C4: persisting a page a second time leaves the table the first call left,
\* for every page and every table the sync can have built.
UpsertIdempotent ==
  \A p \in Pages :
    LET once == persist_people_to_sqlite(table, schema, p, NoFault)
        twice == persist_people_to_sqlite(once.table, once.schema, p, NoFault)
    IN  twice.table = once.table /\ twice.schema = once.schema

\* the same page, with a repeated id and a record without id, was saved twice
\* in a row
UpsertIdempotentWitness ==
  /\ Len(applied) = 3
  /\ applied[1] = <<ItemBob, ItemEmptyId>>
  /\ applied[2] = <<ItemAliceBlank, ItemNoId, ItemAlice>>
  /\ applied[3] = applied[2]
  /\ Len(table) = 2

\* C5: no two rows of people have the same user_id.
UniqueUserIds ==
  \A r, q \in 1..Len(table) : r # q => table[r].user_id # table[q].user_id

\* two overlapping pages were saved, each repeating an id
UniqueUserIdsWitness ==
  /\ Len(applied) = 2
  /\ applied[1] = <<ItemAlice, ItemAliceBlank>>
  /\ applied[2] = <<ItemAliceBlank, ItemNoId, ItemAlice>>
  /\ Len(table) = 1

\* the records of the pages saved, in the order they were written
RECURSIVE Flatten(_)
Flatten(pages) ==
  IF pages = <<>> THEN <<>> ELSE Head(pages) \o Flatten(Tail(pages))

Max(S) == CHOOSE m \in S : \A n \in S : n <= m

\* C6: every stored row carries, in each secondary column, the value of the
\* last record with its id among the pages saved.
LastWriteWins ==
  \A r \in 1..Len(table) :
    LET recs == Flatten(applied)
        hits == {j \in 1..Len(recs) : recs[j].id = table[r].user_id}
    IN  /\ hits # {}
        /\ LET want == RowOf(recs[Max(hits)]) IN
           /\ table[r].username = want.username
           /\ table[r].real_name = want.real_name
           /\ table[r].display_name = want.display_name
           /\ table[r].email = want.email
           /\ table[r].team_id = want.team_id
           /\ table[r].image_192 = want.image_192
           /\ table[r].image_512 = want.image_512

\* a later page, and inside it a later record, blanked the columns of U1
LastWriteWinsWitness ==
  /\ applied = << <<ItemAlice>>, <<ItemAlice, ItemAliceBlank>> >>
  /\ Len(table) = 1
  /\ table[1].user_id = "U1"
  /\ table[1].real_name = ""
  /\ table[1].username = ""
  /\ table[1].image_192 = "b72"

\* what the claims call login content, a page with records, an empty page and a
\* failed fetch
LoginContent(resp) == ~resp.raised /\ (resp.ct_html \/ resp.doctype \/ resp.url_login)

NonEmptyPage(resp) ==
  /\ ~resp.raised /\ ~LoginContent(resp)
  /\ resp.body.kind = "dict" /\ resp.body.items = "list" /\ resp.body.page # <<>>

EmptyPage(resp) ==
  /\ ~resp.raised /\ ~LoginContent(resp)
  /\ \/ resp.body.kind = "json"
     \/ resp.body.kind = "dict" /\ resp.body.items = "absent"
     \/ resp.body.kind = "dict" /\ resp.body.items = "list" /\ resp.body.page = <<>>

FetchFailed(resp) == resp.raised \/ resp.status \notin 200..299

\* C7: when the responses so far are N pages with records and then an empty
\* page, the loop is over with the no-items break, N pages are saved (the N
\* received) and the N+1 requests made are all there are.
PaginationTermination ==
  (/\ prog = "getusers" /\ log # <<>>
   /\ \A k \in 1..(Len(log) - 1) : NonEmptyPage(log[k].resp)
   /\ EmptyPage(log[Len(log)].resp))
  => /\ pc = "done" /\ exit_code = 0 /\ stop = "no_items"
     /\ pages_ok = Len(log) - 1
     /\ Len(applied) = Len(log) - 1
     /\ \A k \in 1..Len(applied) : applied[k] = log[k].resp.body.page

PaginationWitness ==
  /\ Len(log) = 3
  /\ NonEmptyPage(log[1].resp) /\ NonEmptyPage(log[2].resp) /\ EmptyPage(log[3].resp)
  /\ pc = "done" /\ pages_ok = 2 /\ MAX_PAGES = 0

\* C8: a response with login content is the last one of the run: the loop ends
\* there with the k-1 pages saved before it, and the step that receives it
\* writes nothing to the store.
AuthShortCircuit ==
  /\ [](\A k \in 1..Len(log) :
          LoginContent(log[k].resp) =>
            /\ k = Len(log)
            /\ pc = "done" /\ stop = "html"
            /\ pages_ok = k - 1
            /\ current_page = log[k].page)
  /\ [][(Len(log') = Len(log) + 1 /\ LoginContent(log'[Len(log')].resp)) =>
          (table' = table /\ schema' = schema /\ applied' = applied)]_vars

\* the second response is a login page whose body parses to a page with records
AuthShortCircuitWitness ==
  /\ Len(log) = 2
  /\ log[2].resp.doctype
  /\ log[2].resp.body.kind = "dict" /\ log[2].resp.body.items = "list"
  /\ Rows(log[2].resp.body.page) # <<>>
  /\ pages_ok = 1 /\ table # <<>>

\* C9: a listing request that raised or answered with a status outside 2xx is
\* the last one of the run, and its page is not saved.
FetchFailureStops ==
  \A k \in 1..Len(log) :
    FetchFailed(log[k].resp) =>
      /\ k = Len(log)
      /\ pc # "loop"
      /\ pages_ok <= k - 1

\* C10: a page whose persist call raised is the last one requested: the loop
\* ends there, the page is not counted, the page number is not advanced, and
\* the step leaves every row of the table as it was.
PersistFailureHalts ==
  /\ [](\A k \in 1..Len(log) :
          log[k].fault.kind # "none" =>
            /\ k = Len(log)
            /\ pc = "done" /\ stop = "persist_failed"
            /\ pages_ok = k - 1
            /\ current_page = log[k].page)
  /\ [][(Len(log') = Len(log) + 1 /\ log'[Len(log')].fault.kind # "none") =>
          (table' = table /\ pages_ok' = pages_ok /\ applied' = applied)]_vars

\* executemany raised after it had written one row of a page that changes the
\* table, with a page saved before
PersistFailureWitness ==
  /\ Len(log) = 2
  /\ log[2].fault = [kind |-> "execute", n |-> 1]
  /\ Len(Rows(log[2].resp.body.page)) = 2
  /\ pages_ok = 1 /\ table # <<>>
  /\ Upsert(table, Rows(log[2].resp.body.page)[1]) # table

\* the send_message and delete_message calls, in order
RECURSIVE Ops(_)
Ops(calls) ==
  IF calls = <<>> THEN <<>>
  ELSE IF Head(calls).op \in {"send", "delete"}
       THEN <<Head(calls)>> \o Ops(Tail(calls))
       ELSE Ops(Tail(calls))

Last(seq) == seq[Len(seq)]

\* C11: a send run or a delete run that made at least one call and got a
\* failure from every call ends with a status that is not 0.
TotalFailureExits ==
  LET ops == Ops(trace) IN
  (/\ pc = "done" /\ ops # <<>>
   /\ \A k \in 1..Len(ops) : ~ops[k].ok)
  => exit_code # 0

\* what the claims call a 2xx status
Is2xx(status) == status \in 200..299

\* C12 as stated: delete_message returns True exactly for a 2xx response whose
\* body has a truthy ok or does not parse.
DeleteClassification2xx ==
  (prog = "delete" /\ Deletes # <<>>) =>
    (Last(Deletes).ok <=>
       /\ ~reply.raised
       /\ Is2xx(reply.status)
       /\ reply.body = "text" \/ reply.ok)

\* C12 amended: delete_message returns True exactly for a response of status
\* 200 whose body has a truthy ok or does not parse; a request that raised, any
\* other status (another 2xx too) and a parsed body without a truthy ok give False.
DeleteClassification200 ==
  (prog = "delete" /\ Deletes # <<>>) =>
    (Last(Deletes).ok <=>
       /\ ~reply.raised
       /\ reply.status = 200
       /\ reply.body = "text" \/ reply.ok)

\* the second delete of a run got a 200 whose body does not parse and counts
\* as deleted, after a first one that failed
DeleteClassificationWitness ==
  /\ prog = "delete" /\ Len(Deletes) = 2
  /\ ~Deletes[1].ok
  /\ reply.status = 200 /\ reply.body = "text" /\ ~reply.ct_html
  /\ Deletes[2].ok
  /\ success_count = 1

\* C13: a send is a success only for a 2xx response whose body has ok true or
\* does not parse.
SendClassification ==
  (prog = "message" /\ Sends # <<>>) =>
    (Last(Sends).ok =>
       /\ ~reply.raised
       /\ Is2xx(reply.status)
       /\ reply.body = "text" \/ reply.ok)

\* C14: a call answered by an HTML page is a failed call, in a send run and in
\* a delete run, and it does not end the loop.
HtmlReplyIsFailure ==
  LET ops == Ops(trace) IN
  (ops # <<>> /\ reply.ct_html) =>
    /\ ~Last(ops).ok
    /\ (prog = "message" /\ args_channel = "" /\ idx < Len(TO_USERS)) => pc = "broadcast"
    /\ (prog = "delete" /\ i < Len(deletable_messages)) => pc = "deleting"

IsOp(call) == call.op \in {"send", "delete"}

Sleeps == Only(trace, "sleep")

NoTrailingDelay ==
  (pc = "done" /\ Ops(trace) # <<>>) => IsOp(Last(trace))

\* C17: with MAX_PAGES = M > 0 at most M pages are saved and at most M requests
\* made; once M pages are saved the loop is over by the ceiling break, and the
\* page after the M-th was not asked.
PageCeiling ==
  (prog = "getusers" /\ MAX_PAGES > 0) =>
    /\ pages_ok <= MAX_PAGES
    /\ Len(applied) <= MAX_PAGES
    /\ Len(log) <= MAX_PAGES
    /\ pages_ok = MAX_PAGES =>
         /\ pc = "done" /\ exit_code = 0 /\ stop = "max_pages"
         /\ \A k \in 1..Len(log) : log[k].page # PAGE_START + MAX_PAGES

\* two pages with records saved under a ceiling of two
PageCeilingWitness ==
  /\ prog = "getusers" /\ MAX_PAGES = 2
  /\ Len(applied) = 2 /\ pages_ok = 2
  /\ applied[1] # <<>> /\ applied[2] # <<>>
  /\ pc = "done"

\* C18: the k-th listing request asks for page PAGE_START + k - 1, so no page
\* is asked twice and none is skipped, whatever became of the pages before.
SequentialPages ==
  prog = "getusers" =>
    /\ \A k \in 1..Len(log) : log[k].page = PAGE_START + k - 1
    /\ pc = "loop" => current_page = PAGE_START + Len(log)

\* three requests from a start page of 5, the last of them failed in the store
SequentialPagesWitness ==
  /\ prog = "getusers" /\ PAGE_START = 5
  /\ Len(log) = 3
  /\ log[3].page = 7
  /\ log[3].fault.kind = "execute"
  /\ pc = "done"

\* the rows written for the pages saved
RECURSIVE Written(_)
Written(pages) ==
  IF pages = <<>> THEN 0 ELSE Len(Rows(Head(pages))) + Written(Tail(pages))

\* C19: in a run whose counted pages are all lists of records that were saved,
\* the total printed as users upserted is the number of rows written for them.
CountPersisted ==
  (prog = "getusers" /\ pc = "done" /\ pages_ok = Len(applied)) =>
    total_items = Written(applied)

\* the ids a value of item.id counts as
HasId(item) == item.id \notin {Absent, Null, ""}

\* C20: no row has an empty user_id and get_all_user_ids returns none; a
\* record without id makes no row and does not fail its page: every page that
\* met no storage fault is saved, and every record with an id of a saved page
\* has its row.
DropsRecordsWithoutId ==
  prog = "getusers" =>
    /\ \A r \in 1..Len(table) : table[r].user_id \notin {Absent, Null, ""}
    /\ LET ids == get_all_user_ids(schema, table) IN
       /\ Len(ids) = Len(table)
       /\ \A n \in 1..Len(ids) : ids[n] \notin {Absent, Null, ""}
    /\ \A k \in 1..Len(applied) :
         \A j \in 1..Len(applied[k]) :
           HasId(applied[k][j]) =>
             \E r \in 1..Len(table) : table[r].user_id = applied[k][j].id
    /\ \A r \in 1..Len(table) :
         \E k \in 1..Len(applied) :
           \E j \in 1..Len(applied[k]) : applied[k][j].id = table[r].user_id
    /\ Len(applied) =
         Cardinality({k \in 1..Len(log) :
                        NonEmptyPage(log[k].resp) /\ log[k].fault.kind = "none"})

\* pages with a record without id were saved, one of them holding no other
\* record, and the records with an id are stored
DropsRecordsWithoutIdWitness ==
  /\ prog = "getusers"
  /\ applied = << <<ItemBob, ItemEmptyId>>, <<ItemNoId>>,
                  <<ItemAliceBlank, ItemNoId, ItemAlice>> >>
  /\ Len(table) = 2
  /\ get_all_user_ids(schema, table) = <<"U2", "U1">>
Terminated == pc \in {"done", "crashed"}

\* the response parses to an object whose items are truthy
TruthyItems(resp) ==
  /\ ~resp.raised /\ ~LoginContent(resp) /\ resp.body.kind = "dict"
  /\ \/ resp.body.items = "other"
     \/ resp.body.items = "list" /\ resp.body.page # <<>>

\* C21 as stated: with or without a page ceiling, whatever the listing endpoint
\* answers, the sync loop eventually ends.
FetchLoopFinite == <>Terminated

\* C21 amended: with a page ceiling the run always ends; the loop goes on only
\* while every request so far was answered by a page with items that was saved.
FetchLoopFiniteWithCeiling ==
  /\ (prog = "getusers" /\ MAX_PAGES > 0) ~> Terminated
  /\ [](prog = "getusers" /\ pc = "loop" =>
          /\ pages_ok = Len(log)
          /\ \A k \in 1..Len(log) : TruthyItems(log[k].resp))

FetchLoopFiniteWitness ==
  /\ prog = "getusers" /\ pc = "done" /\ stop = "max_pages"
  /\ PAGE_START = 5 /\ MAX_PAGES = 2
  /\ Len(log) = 2 /\ current_page = 7

Count(str, sep) == Cardinality({k \in 1..Len(str) : str[k] = sep})
NameOf(fragment) == Strip(SubSeq(fragment, 1, First(fragment, "=") - 1))
ValueOf(fragment) ==
  Strip(SubSeq(fragment, First(fragment, "=") + 1, Len(fragment)))
Fragments == Split(COOKIE, ";")

\* C22 as stated: the jar holds exactly the name/value pairs of the fragments
\* with exactly one "="; fragments with none or with several are skipped.
CookieParsingExactlyOne ==
  (prog = "session" /\ pc = "done") =>
    session = {<<NameOf(Fragments[k]), ValueOf(Fragments[k])>> :
                 k \in {n \in 1..Len(Fragments) : Count(Fragments[n], "=") = 1}}

\* C22 amended: the jar holds, for every fragment with at least one "=", the
\* name before its first "=" and the value after it, both stripped, unless a
\* later fragment sets the same name; fragments without "=" are skipped.
CookieParsingFirstEquals ==
  (prog = "session" /\ pc = "done") =>
    session = {<<NameOf(Fragments[k]), ValueOf(Fragments[k])>> :
                 k \in {n \in 1..Len(Fragments) :
                          /\ Contains(Fragments[n], "=")
                          /\ \A j \in (n + 1)..Len(Fragments) :
                               Contains(Fragments[j], "=") =>
                                 NameOf(Fragments[j]) # NameOf(Fragments[n])}}

\* "a==;b": the first fragment has two "=", the second has none
CookieParsingWitness ==
  /\ prog = "session" /\ pc = "done"
  /\ COOKIE = <<"a", "=", "=", ";", "b">>
  /\ session = {<<(<<"a">>), (<<"=">>)>>}

\* C23: with an empty cookie or an empty token a script makes no request and no
\* call, leaves the store as it is, and its only step ends it with status 1.
MissingCredentialExits ==
  /\ []((prog \in {"getusers", "message", "delete"}
           /\ (COOKIE = <<>> \/ XOXC_TOKEN = <<>>)) =>
          /\ log = <<>> /\ trace = <<>> /\ applied = <<>>
          /\ pc \in {"check", "done"}
          /\ pc = "done" => exit_code = 1)
  /\ [][(COOKIE = <<>> \/ XOXC_TOKEN = <<>>) =>
          /\ pc' = "done" /\ exit_code' = 1
          /\ UNCHANGED <<schema, table, session>>]_vars

MissingCredentialWitness ==
  /\ prog = "delete" /\ pc = "done" /\ exit_code = 1
  /\ COOKIE # <<>> /\ XOXC_TOKEN = <<>>
  /\ args_channel = "D1" /\ trace = <<>>

\* C24: a broadcast that finds no id in the store sends once, to TO_USER, when
\* TO_USER is set; otherwise it ends through the "no recipients" exit with
\* status 1, not through an exception, and sends nothing.
RecipientFallback ==
  (/\ prog = "message" /\ Terminated /\ args_channel = ""
   /\ COOKIE # <<>> /\ XOXC_TOKEN # <<>>
   /\ get_all_user_ids(schema, table) = <<>>) =>
    IF TO_USER_ENV # ""
    THEN Len(Sends) = 1 /\ Sends[1].channel = TO_USER_ENV
    ELSE pc = "done" /\ exit_code = 1 /\ Sends = <<>>

PassesFilter(msg) ==
  /\ msg.type = "message" /\ msg.ts # Absent
  /\ msg.user # Absent \/ msg.bot_id # Absent

\* every delete_message call is for a message of the history fetched for its
\* channel that passes the filter, with that message's ts
CallsAreFiltered ==
  \A c \in 1..Len(Deletes) :
    \E k \in 1..Len(fetched) :
      /\ fetched[k].channel = Deletes[c].channel
      /\ \E n \in 1..Len(fetched[k].messages) :
           /\ PassesFilter(fetched[k].messages[n])
           /\ fetched[k].messages[n].ts = Deletes[c].ts

\* a message of a fetched history has a call exactly if it passes the filter
FilteredAreCalled ==
  \A k \in 1..Len(fetched) :
    \A n \in 1..Len(fetched[k].messages) :
      PassesFilter(fetched[k].messages[n]) <=>
        \E c \in 1..Len(Deletes) :
          /\ Deletes[c].channel = fetched[k].channel
          /\ Deletes[c].ts = fetched[k].messages[n].ts

\* C25 as stated: in every run, once it is over, a fetched message got its
\* delete_message call exactly if it passes the filter, with its channel and ts.
DeleteTargetsExact ==
  (prog = "delete" /\ pc = "done") => CallsAreFiltered /\ FilteredAreCalled

\* C25 amended: the same in every run without --dry-run; with --dry-run no
\* delete_message call is made.
DeleteTargetsExactUnlessDryRun ==
  prog = "delete" =>
    /\ CallsAreFiltered
    /\ dry_run => Deletes = <<>>
    /\ (pc = "done" /\ ~dry_run) => FilteredAreCalled

DeleteTargetsWitness ==
  /\ prog = "delete" /\ pc = "done" /\ ~dry_run
  /\ Len(fetched) = 1
  /\ fetched[1].messages = <<Joined, ByUser>>
  /\ Targets(Deletes) = <<(<<fetched[1].channel, "104.0">>)>>
====
